---- MODULE Spec2Model ----
(***************************************************************************)
(* A model of benford_analysis.py: the leading-digit extractor             *)
(* get_first_digit and the pipeline main() (create the output directory,   *)
(* load the spreadsheet, select the column, extract and count leading      *)
(* digits, write the text report, save the chart).                         *)
(*                                                                         *)
(* Numbers are decimals  digs * 10^exp  with a sign; text is a sequence of *)
(* one-character strings, so that "{:.15f}".format, replace, lstrip and    *)
(* int(s[0]) are computed character by character as the code does.         *)
(* Frequencies are exact rationals <<numerator, denominator>>; log10 is    *)
(* kept symbolic as a record holding its rational argument.                *)
(***************************************************************************)
EXTENDS Integers, Sequences, FiniteSets

\* ------------------------------------------------------------------ bounds

\* Longest mantissa (in decimal digits) of an input of get_first_digit.
MaxDigs == 2
\* Inputs have a decimal exponent in -MaxNegExp .. MaxPosExp.
MaxNegExp == 18
MaxPosExp == 2
\* Largest |k| of a rescaling n * 10^k.
MaxShift == 4
\* Most rows of an exhaustively enumerated dataset.
MaxRows == 2

\* ------------------------------------------------------- program constants

\* The precision of the format specification "{:.15f}".
FracDigits == 15

output_dir == "output"
file_path == "je_samples.xlsx"
report_path == "output/benford_analysis_report.txt"
chart_path == "output/benford_analysis_chart.png"

\* ------------------------------------------------------------------ values

DigitSet == 0..9

\* A cell of a column / an argument of get_first_digit.
\*   kind "num"    a finite float or int, value (-1)^neg * digs * 10^exp;
\*                 above: the binary double lies above the decimal written
\*                 (it decides how an exact decimal tie is rounded)
\*   kind "na"     None / NaN (a missing cell)
\*   kind "text"   a str cell such as "bad"
\*   kind "inf"    the float inf
\*   kind "bigint" a Python int too large to convert to float
Num(neg, digs, exp, above) ==
    [kind |-> "num", neg |-> neg, digs |-> digs, exp |-> exp, above |-> above]

Other(kind) ==
    [kind |-> kind, neg |-> FALSE, digs |-> <<0>>, exp |-> 0, above |-> FALSE]

NA == Other("na")
Text == Other("text")
Inf == Other("inf")
BigInt == Other("bigint")
Zero == Num(FALSE, <<0>>, 0, FALSE)
NegZero == Num(TRUE, <<0>>, 0, FALSE)

IsZero(n) == n.kind = "num" /\ \A i \in 1..Len(n.digs) : n.digs[i] = 0

\* n * 10^k, the double nearest to it lying above the decimal or not.
Scale(n, k, above) == [n EXCEPT !.exp = @ + k, !.above = above]

\* --------------------------------------------------------------- outcomes

\* What a call produces: a digit, None, or an exception leaving the call.
Return(d) == [tag |-> "digit", d |-> d, exc |-> ""]
None == [tag |-> "None", d |-> 0, exc |-> ""]
Raise(e) == [tag |-> "raise", d |-> 0, exc |-> e]
Pending == [tag |-> "pending", d |-> 0, exc |-> ""]

\* ------------------------------------------------------------ text helpers

DigitChar(d) ==
    CASE d = 0 -> "0" [] d = 1 -> "1" [] d = 2 -> "2" [] d = 3 -> "3"
      [] d = 4 -> "4" [] d = 5 -> "5" [] d = 6 -> "6" [] d = 7 -> "7"
      [] d = 8 -> "8" [] d = 9 -> "9"

DigitChars == { DigitChar(d) : d \in DigitSet }

Chars(ds) == [i \in 1..Len(ds) |-> DigitChar(ds[i])]

Zeros(k) == [i \in 1..k |-> 0]

\* The digit sequence plus one, with carry: the last digit below 9 goes up
\* and the 9s after it become 0; all 9s give 1 followed by zeros.
Incr(ds) ==
    LET below9 == { i \in 1..Len(ds) : ds[i] # 9 }
    IN  IF below9 = {} THEN <<1>> \o Zeros(Len(ds))
        ELSE LET p == CHOOSE i \in below9 : \A j \in below9 : j <= i
             IN  [i \in 1..Len(ds) |->
                    IF i < p THEN ds[i] ELSE IF i = p THEN ds[i] + 1 ELSE 0]

\* Whether dropping the digits rest rounds the kept digits up.  An exact
\* decimal tie (5000...) is never a binary double for the mantissas of the
\* model (that needs 5^16 | mantissa), so the double's side decides it.
RoundUp(rest, above) ==
    \/ rest[1] > 5
    \/ /\ rest[1] = 5
       /\ \/ \E i \in 2..Len(rest) : rest[i] # 0
          \/ above

\* The digits of pad \o digs that lie beyond the FracDigits-th fractional digit.
DroppedDigits(n) ==
    LET k == 0 - n.exp
        pad == IF Len(n.digs) < k + 1
               THEN Zeros(k + 1 - Len(n.digs)) ELSE <<>>
        all == pad \o n.digs
    IN  IF k <= FracDigits THEN <<>>
        ELSE SubSeq(all, Len(all) - (k - FracDigits) + 1, Len(all))

\* |n| lies exactly halfway between two neighbours of FracDigits digits.
IsTie(n) ==
    LET rest == DroppedDigits(n)
    IN  /\ rest # <<>>
        /\ rest[1] = 5
        /\ \A i \in 2..Len(rest) : rest[i] = 0

\* The digits of |n| in fixed-point notation with FracDigits fractional
\* digits, correctly rounded: integer part (at least one digit) then fraction.
FixedDigits(n) ==
    IF n.exp >= 0 THEN n.digs \o Zeros(n.exp) \o Zeros(FracDigits)
    ELSE LET k == 0 - n.exp
             pad == IF Len(n.digs) < k + 1
                    THEN Zeros(k + 1 - Len(n.digs)) ELSE <<>>
             all == pad \o n.digs
         IN  IF k <= FracDigits THEN all \o Zeros(FracDigits - k)
             ELSE LET cut == Len(all) - (k - FracDigits)
                      keep == SubSeq(all, 1, cut)
                      rest == DroppedDigits(n)
                  IN  IF RoundUp(rest, n.above) THEN Incr(keep) ELSE keep

\* "{:.15f}".format(n_abs) for a finite float or an int that converts.
FormatF15(n) ==
    LET ds == FixedDigits(n)
        ip == Len(ds) - FracDigits
    IN  Chars(SubSeq(ds, 1, ip)) \o <<".">> \o Chars(SubSeq(ds, ip + 1, Len(ds)))

\* s.replace('.', '')
RemoveDots(s) == SelectSeq(s, LAMBDA c : c # ".")

\* s.lstrip('0'): s from its first character that is not '0'.
LStripZeros(s) ==
    LET other == { i \in 1..Len(s) : s[i] # "0" }
    IN  IF other = {} THEN <<>>
        ELSE SubSeq(s, CHOOSE i \in other : \A j \in other : i <= j, Len(s))

\* int(c) of one character: its value, or ValueError.
IntOfChar(c) ==
    IF c \in DigitChars
    THEN Return(CHOOSE d \in DigitSet : DigitChar(d) = c)
    ELSE Raise("ValueError")

\* ------------------------------------------------------------ input values

\* Mantissas: digit sequences of length 1..MaxDigs with a non-zero first digit.
Mantissas ==
    UNION { { m \in [1..len -> DigitSet] : m[1] # 0 } : len \in 1..MaxDigs }

Exponents == (0 - MaxNegExp)..MaxPosExp

\* The side of the double is recorded only where it decides the rounding.
NonZeroNums ==
    { v \in { Num(neg, m, e, ab) : neg \in BOOLEAN, m \in Mantissas,
                                   e \in Exponents, ab \in BOOLEAN } :
        v.above => IsTie(v) }

Values == NonZeroNums \cup {Zero, NegZero, NA, Text, Inf, BigInt}

\* -------------------------------------------------------- get_first_digit

\* The body of the try block: lines 9-26.
TryBody(n) ==
    IF n.kind = "na" THEN None                      \* pd.isna(n)
    ELSE IF n.kind = "text" THEN Raise("TypeError") \* abs(n)
    ELSE IF IsZero(n) THEN None                     \* n_abs == 0
    ELSE IF n.kind = "bigint" THEN Raise("OverflowError")
    ELSE LET fmt == IF n.kind = "inf" THEN <<"i", "n", "f">> ELSE FormatF15(n)
             s == LStripZeros(RemoveDots(fmt))
         IN  IF s = <<>> THEN None
             ELSE IntOfChar(s[1])

\* The try block without its handler: an exception leaves the call.
NoExceptHandler(n) == TryBody(n)

\* get_first_digit: "except Exception: return None" around the body.
get_first_digit(n) ==
    LET r == TryBody(n)
    IN  IF r.tag = "raise" THEN None ELSE r


\* ------------------------------------------------------------------ state

VARIABLES
    pc,             \* the statement of main() about to run ("idle": no run)
    returned,       \* which return ended main(): "", "load", "select",
                    \* "extract" (the early returns) or "end"
    env0,           \* the environment main() started in (never changes)
    dir,            \* the output directory: [exists, created]
    report_file,    \* the report file: [state, lines]
    chart_file,     \* the chart file: [state, actual_values, benford_values]
    console,        \* the lines printed so far
    df,             \* the loaded table: [loaded, columns, data]
    process_column, \* the selected column name, "" before the selection
    first_digits,   \* the digits left after dropna()
    total_count,
    digit_counts,
    actual_freq,
    benford_freq,
    arg,            \* the argument of a direct call of get_first_digit
    result,         \* what the last direct call produced
    scaled_from     \* what the call produced before arg was rescaled

vars == <<pc, returned, env0, dir, report_file, chart_file, console, df,
          process_column, first_digits, total_count, digit_counts,
          actual_freq, benford_freq, arg, result, scaled_from>>

mainVars == <<pc, returned, env0, dir, report_file, chart_file, console, df,
              process_column, first_digits, total_count, digit_counts,
              actual_freq, benford_freq>>

digitVars == <<arg, result, scaled_from>>

\* ---------------------------------------------------------------- datasets

ColumnOrder == <<"Date", "Amount", "AbsoluteAmount">>
ColumnNames == { ColumnOrder[i] : i \in 1..Len(ColumnOrder) }

\* The cells of the example column [123, 45.6, 0, -0.0089, "bad", null].
Cell123 == Num(FALSE, <<1, 2, 3>>, 0, FALSE)
Cell45_6 == Num(FALSE, <<4, 5, 6>>, 0 - 1, FALSE)
CellNeg0_0089 == Num(TRUE, <<8, 9>>, 0 - 4, FALSE)
ExampleColumn == <<Cell123, Cell45_6, Zero, CellNeg0_0089, Text, NA>>

Cells == { ExampleColumn[i] : i \in 1..Len(ExampleColumn) }
AbsCells == { Num(FALSE, <<8, 9>>, 0 - 4, FALSE), NA }

\* The subsequence of s of the elements in the set keep.
SelectSeq2(s, keep) == SelectSeq(s, LAMBDA x : x \in keep)

Table(present, amount, absamount) ==
    [loaded |-> TRUE,
     columns |-> SelectSeq2(ColumnOrder, present),
     data |-> [c \in present |->
                 CASE c = "Amount" -> amount
                   [] c = "AbsoluteAmount" -> absamount
                   [] OTHER -> [i \in 1..Len(amount) |-> Text]]]

NoTable == [loaded |-> FALSE, columns |-> <<>>, data |-> <<>>]

\* Rectangular tables of up to MaxRows rows, and the example column.
Tables ==
    { Table(present, a, b) :
        present \in SUBSET ColumnNames,
        a \in UNION { [1..r -> Cells] : r \in 0..MaxRows },
        b \in UNION { [1..r -> AbsCells] : r \in 0..MaxRows } }

RectTables == { t \in Tables :
                  \A c1 \in DOMAIN t.data, c2 \in DOMAIN t.data :
                      Len(t.data[c1]) = Len(t.data[c2]) }

ExampleTables ==
    { Table(present, ExampleColumn,
            <<Cell123, Cell45_6, Zero, Num(FALSE, <<8, 9>>, 0 - 4, FALSE), NA, NA>>) :
        present \in SUBSET ColumnNames }

\* The input file: unreadable (missing, not a spreadsheet), or a table.
Files == { [readable |-> FALSE, table |-> NoTable] }
         \cup { [readable |-> TRUE, table |-> t] : t \in RectTables \cup ExampleTables }

\* The output location before the run: no directory; a directory without
\* the two files; a directory holding the files of an earlier run.
Environments ==
    { [dir_existed |-> d, stale |-> s, file |-> f] :
        d \in BOOLEAN, s \in BOOLEAN, f \in Files }

StartEnvironments == { e \in Environments : e.stale => e.dir_existed }

\* ------------------------------------------------------------------ output

Msg(msg, text, cols, cnt) == [msg |-> msg, text |-> text, cols |-> cols, cnt |-> cnt]

Printed(msg) == \E i \in 1..Len(console) : console[i].msg = msg

Line(kind, text, d, count, act, ben) ==
    [kind |-> kind, text |-> text, d |-> d, count |-> count, act |-> act, ben |-> ben]

\* log10(x) of a rational x = <<numerator, denominator>>, kept symbolic.
Log10(x) == [log10 |-> x]

\* count / total as an exact rational.
Div(count, total) == <<count, total>>

\* x * 100 of a rational.
Times100(x) == <<x[1] * 100, x[2]>>


\* ------------------------------------------------------------ aggregation

\* get_first_digit of every cell a table of the model can hold, tabulated.
CellDigit == [c \in Cells \cup AbsCells |-> get_first_digit(c)]

\* df[process_column].apply(get_first_digit): one outcome per cell.
Apply(col) == [i \in 1..Len(col) |-> CellDigit[col[i]]]

\* Whether a call of apply raised (an exception of a cell leaves apply).
ApplyRaised(outs) == \E i \in 1..Len(outs) : outs[i].tag = "raise"

\* .dropna(): the digits of the outcomes that are not None, in order.
DropNA(outs) ==
    LET kept == SelectSeq(outs, LAMBDA o : o.tag = "digit")
    IN  [i \in 1..Len(kept) |-> kept[i].d]

RECURSIVE OccurrencesUpTo(_, _, _)
\* How many of s[1], ..., s[k] are d.
OccurrencesUpTo(s, d, k) ==
    IF k = 0 THEN 0
    ELSE (IF s[k] = d THEN 1 ELSE 0) + OccurrencesUpTo(s, d, k - 1)

Occurrences(s, d) == OccurrencesUpTo(s, d, Len(s))

\* A count of 1 for each digit that occurs.
value_counts_unique(s) ==
    [d \in { s[i] : i \in 1..Len(s) } |-> 1]

\* .value_counts().sort_index(): a count for each digit that occurs.
value_counts(s) ==
    [d \in { s[i] : i \in 1..Len(s) } |-> Occurrences(s, d)]

\* The index as value_counts left it.
KeepIndex(vc) == vc

\* Lines 78-80: every digit of 1..9 missing from the index gets count 0.
EnsureAllDigits(vc) ==
    [d \in (DOMAIN vc) \cup (1..9) |-> IF d \in DOMAIN vc THEN vc[d] ELSE 0]

\* 1 + 1//d: the quotient taken as an integer.
BenfordFreqFloorDiv == [d \in 1..9 |-> Log10(<<1 + (1 \div d), 1>>)]

\* Line 86: benford_freq = {d: math.log10(1 + 1/d) for d in range(1, 10)},
\* 1 + 1/d being the rational (d + 1)/d.
BenfordFreq == [d \in 1..9 |-> Log10(<<d + 1, d>>)]

\* ---------------------------------------------------------------- main()

\* os.path.exists(output_dir)
PathNeverExists(d) == FALSE

PathExists(d) == d.exists

\* Lines 31-37: the start line, then the output directory.
MakeOutputDir ==
    /\ pc = "start"
    /\ IF ~PathExists(dir)
       THEN /\ dir' = [exists |-> TRUE, created |-> TRUE]
            /\ console' = console
                 \o <<Msg("Starting Benford's Law Analysis...", "", {}, 0),
                      Msg("Created directory", output_dir, {}, 0)>>
       ELSE /\ dir' = dir
            /\ console' = Append(console,
                 Msg("Starting Benford's Law Analysis...", "", {}, 0))
    /\ pc' = "load"
    /\ UNCHANGED <<returned, env0, report_file, chart_file, df, process_column,
                   first_digits, total_count, digit_counts, actual_freq,
                   benford_freq, digitVars>>

\* Lines 40-46: pd.read_excel, or the error and the return.
LoadData ==
    /\ pc = "load"
    /\ IF env0.file.readable
       THEN /\ df' = env0.file.table
            /\ console' = Append(console, Msg("Data loaded successfully.", "", {}, 0))
            /\ pc' = "select"
            /\ returned' = returned
       ELSE /\ df' = df
            /\ console' = Append(console,
                 Msg("Error loading Excel file", file_path, {}, 0))
            /\ pc' = "done"
            /\ returned' = "load"
    /\ UNCHANGED <<env0, dir, report_file, chart_file, process_column,
                   first_digits, total_count, digit_counts, actual_freq,
                   benford_freq, digitVars>>

\* Lines 50-55: the tests "'Amount' in df.columns", then
\* "'AbsoluteAmount' in df.columns"; "" when neither holds.
ChooseColumnAbsFirst(columns) ==
    IF \E i \in 1..Len(columns) : columns[i] = "AbsoluteAmount" THEN "AbsoluteAmount"
    ELSE IF \E i \in 1..Len(columns) : columns[i] = "Amount" THEN "Amount"
    ELSE ""

ChooseColumn(columns) ==
    IF \E i \in 1..Len(columns) : columns[i] = "Amount" THEN "Amount"
    ELSE IF \E i \in 1..Len(columns) : columns[i] = "AbsoluteAmount" THEN "AbsoluteAmount"
    ELSE ""

\* Lines 49-58: 'Amount', else 'AbsoluteAmount' with a notice, else the
\* error with the available columns and the return.
SelectColumn ==
    /\ pc = "select"
    /\ IF ChooseColumn(df.columns) = "Amount"
       THEN /\ process_column' = "Amount"
            /\ console' = console
            /\ pc' = "extract"
            /\ returned' = returned
       ELSE IF ChooseColumn(df.columns) = "AbsoluteAmount"
       THEN /\ process_column' = "AbsoluteAmount"
            /\ console' = Append(console,
                 Msg("Column 'Amount' not found. Using 'AbsoluteAmount' instead.",
                     "", {}, 0))
            /\ pc' = "extract"
            /\ returned' = returned
       ELSE /\ process_column' = process_column
            /\ console' = console
                 \o <<Msg("Error: Neither 'Amount' nor 'AbsoluteAmount' column found in Excel file.",
                          "", {}, 0),
                      Msg("Available columns", "",
                          { df.columns[i] : i \in 1..Len(df.columns) }, 0)>>
            /\ pc' = "done"
            /\ returned' = "select"
    /\ UNCHANGED <<env0, dir, report_file, chart_file, df, first_digits,
                   total_count, digit_counts, actual_freq, benford_freq,
                   digitVars>>

\* first_digits.empty
NeverEmpty(s) == FALSE

Empty(s) == s = <<>>

\* Line 62: the outcomes of apply over the selected column.
Applied == Apply(df.data[process_column])

\* Lines 61-72: apply get_first_digit, dropna, the empty check, the total.
\* An exception leaving get_first_digit leaves apply and main().
ExtractDigits ==
    /\ pc = "extract"
    /\ IF ApplyRaised(Applied)
       THEN /\ console' = Append(console,
                 Msg("Processing column", process_column, {}, 0))
            /\ pc' = "crashed"
            /\ UNCHANGED <<first_digits, total_count, returned>>
       ELSE IF Empty(DropNA(Applied))
       THEN /\ first_digits' = DropNA(Applied)
            /\ console' = console
                 \o <<Msg("Processing column", process_column, {}, 0),
                      Msg("No valid numeric data found for analysis.", "", {}, 0)>>
            /\ pc' = "done"
            /\ returned' = "extract"
            /\ UNCHANGED total_count
       ELSE /\ first_digits' = DropNA(Applied)
            /\ total_count' = Len(DropNA(Applied))
            /\ console' = console
                 \o <<Msg("Processing column", process_column, {}, 0),
                      Msg("Total valid entries", "", {}, Len(DropNA(Applied)))>>
            /\ pc' = "frequencies"
            /\ returned' = returned
    /\ UNCHANGED <<env0, dir, report_file, chart_file, df, process_column,
                   digit_counts, actual_freq, benford_freq, digitVars>>

\* digit_counts / total_count, entry by entry.
ActualFreq(counts, total) == [d \in DOMAIN counts |-> Div(counts[d], total)]

\* Lines 75-86: the counts, the observed and the expected frequencies.
Frequencies ==
    /\ pc = "frequencies"
    /\ LET counts == EnsureAllDigits(value_counts(first_digits))
       IN  /\ digit_counts' = counts
           /\ actual_freq' = ActualFreq(counts, total_count)
    /\ benford_freq' = BenfordFreq
    /\ pc' = "open_report"
    /\ UNCHANGED <<returned, env0, dir, report_file, chart_file, console, df,
                   process_column, first_digits, total_count, digitVars>>

\* Lines 89-90: open(report_path, 'w') creates or truncates the file.
OpenReport ==
    /\ pc = "open_report"
    /\ report_file' = [state |-> "open", lines |-> <<>>]
    /\ pc' = "write_report"
    /\ UNCHANGED <<returned, env0, dir, chart_file, console, df, process_column,
                   first_digits, total_count, digit_counts, actual_freq,
                   benford_freq, digitVars>>

HeaderLines ==
    <<Line("title", "Benford's Law Analysis Report", 0, 0, <<0, 1>>, <<0, 1>>),
      Line("file", file_path, 0, 0, <<0, 1>>, <<0, 1>>),
      Line("column", process_column, 0, 0, <<0, 1>>, <<0, 1>>),
      Line("total", "", 0, total_count, <<0, 1>>, <<0, 1>>),
      Line("tablehead", "Digit|Count|Actual %|Benford %|Diff %", 0, 0,
           <<0, 1>>, <<0, 1>>)>>

\* Lines 100-104: the row of digit d.  The expected percentage is 100 * log10
\* of benford_freq[d]'s argument; the difference is the pair (act, ben).
RowLine(d) ==
    Line("row", "", d, digit_counts[d], Times100(actual_freq[d]),
         benford_freq[d].log10)

\* The digits of range(1, 10) the loop reaches: all of them, or those before
\* the first digit missing from digit_counts (a KeyError).
RowsReached ==
    { d \in 1..9 : \A e \in 1..d : e \in DOMAIN digit_counts }

\* Lines 91-104: the header lines, then one row per digit.  A KeyError
\* closes the file (the with block) and leaves main().
WriteReport ==
    /\ pc = "write_report"
    /\ LET rows == [d \in RowsReached |-> RowLine(d)]
       IN  IF RowsReached # 1..9
           THEN /\ report_file' = [state |-> "closed", lines |-> HeaderLines \o rows]
                /\ pc' = "crashed"
           ELSE /\ report_file' = [report_file EXCEPT !.lines = HeaderLines \o rows]
                /\ pc' = "close_report"
    /\ UNCHANGED <<returned, env0, dir, chart_file, console, df, process_column,
                   first_digits, total_count, digit_counts, actual_freq,
                   benford_freq, digitVars>>

RowLines(lines) == SelectSeq(lines, LAMBDA l : l.kind = "row")

\* Line 106 without the end of a with block: the file stays open.
CloseReportNoClose ==
    /\ pc = "close_report"
    /\ console' = Append(console, Msg("Report saved to", report_path, {}, 0))
    /\ pc' = "chart"
    /\ UNCHANGED <<returned, env0, dir, report_file, chart_file, df,
                   process_column, first_digits, total_count, digit_counts,
                   actual_freq, benford_freq, digitVars>>

\* The end of the with block and line 106.
CloseReport ==
    /\ pc = "close_report"
    /\ report_file' = [report_file EXCEPT !.state = "closed"]
    /\ console' = Append(console, Msg("Report saved to", report_path, {}, 0))
    /\ pc' = "chart"
    /\ UNCHANGED <<returned, env0, dir, chart_file, df, process_column,
                   first_digits, total_count, digit_counts, actual_freq,
                   benford_freq, digitVars>>

\* Lines 109-129: the two series of bars, savefig, the last line.
SaveChart ==
    /\ pc = "chart"
    /\ chart_file' =
         [state |-> "saved",
          actual_values |-> [d \in 1..9 |-> Times100(actual_freq[d])],
          benford_values |-> [d \in 1..9 |-> benford_freq[d].log10]]
    /\ console' = Append(console, Msg("Chart saved to", chart_path, {}, 0))
    /\ pc' = "done"
    /\ returned' = "end"
    /\ UNCHANGED <<env0, dir, report_file, df, process_column, first_digits,
                   total_count, digit_counts, actual_freq, benford_freq,
                   digitVars>>

NoFile == [state |-> "absent", lines |-> <<>>]
StaleFile == [state |-> "stale", lines |-> <<>>]
NoChart == [state |-> "absent", actual_values |-> <<>>, benford_values |-> <<>>]
StaleChart == [state |-> "stale", actual_values |-> <<>>, benford_values |-> <<>>]

MainIdle ==
    /\ returned = ""
    /\ console = <<>>
    /\ df = NoTable
    /\ process_column = ""
    /\ first_digits = <<>>
    /\ total_count = 0
    /\ digit_counts = <<>>
    /\ actual_freq = <<>>
    /\ benford_freq = <<>>

DigitIdle ==
    /\ arg = NA
    /\ result = Pending
    /\ scaled_from = Pending

\* main() is about to run in some environment.
Init ==
    /\ pc = "start"
    /\ env0 \in StartEnvironments
    /\ dir = [exists |-> env0.dir_existed, created |-> FALSE]
    /\ report_file = IF env0.stale THEN StaleFile ELSE NoFile
    /\ chart_file = IF env0.stale THEN StaleChart ELSE NoChart
    /\ MainIdle
    /\ DigitIdle

Next ==
    \/ MakeOutputDir
    \/ LoadData
    \/ SelectColumn
    \/ ExtractDigits
    \/ Frequencies
    \/ OpenReport
    \/ WriteReport
    \/ CloseReport
    \/ SaveChart

Spec == Init /\ [][Next]_vars

\* main() is one thread that runs statement after statement: a statement
\* that can run does run.
FairSpec == Spec /\ WF_vars(Next)

\* ------------------------------------------- direct calls of get_first_digit

\* One value is about to be passed to get_first_digit.
InitDigit ==
    /\ pc = "idle"
    /\ env0 = [dir_existed |-> FALSE, stale |-> FALSE,
               file |-> [readable |-> FALSE, table |-> NoTable]]
    /\ dir = [exists |-> FALSE, created |-> FALSE]
    /\ report_file = NoFile
    /\ chart_file = NoChart
    /\ MainIdle
    /\ arg \in Values
    /\ result = Pending
    /\ scaled_from = Pending

\* result = get_first_digit(arg)
Call ==
    /\ pc = "idle"
    /\ result = Pending
    /\ result' = get_first_digit(arg)
    /\ UNCHANGED <<arg, scaled_from, mainVars>>

InRange(n) == n.exp \in Exponents

\* The call repeated on arg * 10^k, for a non-zero number arg.
Rescale ==
    /\ pc = "idle"
    /\ result # Pending
    /\ scaled_from = Pending
    /\ arg.kind = "num"
    /\ ~IsZero(arg)
    /\ \E k \in (0 - MaxShift)..MaxShift, above \in BOOLEAN :
         /\ k # 0
         /\ InRange(Scale(arg, k, above))
         /\ above => IsTie(Scale(arg, k, above))
         /\ arg' = Scale(arg, k, above)
         /\ scaled_from' = result
         /\ result' = get_first_digit(Scale(arg, k, above))
    /\ UNCHANGED mainVars

NextDigit == Call \/ Rescale

SpecDigit == InitDigit /\ [][NextDigit]_vars

\* Runs of main() and direct calls of get_first_digit.
InitAll == Init \/ InitDigit

NextAll == Next \/ NextDigit

SpecAll == InitAll /\ [][NextAll]_vars


\* ============================================================== properties

\* ----------------------------------------------------- the run's situation

TableRead == env0.file.table

HasColumn(name) ==
    \E i \in 1..Len(TableRead.columns) : TableRead.columns[i] = name

\* The cells (by position) of col for which get_first_digit returns digit d.
CellsWithDigit(col, d) ==
    { i \in 1..Len(col) : get_first_digit(col[i]) = Return(d) }

\* The cells of col for which get_first_digit returns a digit.
ValidCells(col) ==
    { i \in 1..Len(col) : get_first_digit(col[i]).tag = "digit" }

LoadFails == ~env0.file.readable

ColumnMissing ==
    /\ env0.file.readable
    /\ ~HasColumn("Amount")
    /\ ~HasColumn("AbsoluteAmount")

PriorityColumn == IF HasColumn("Amount") THEN "Amount" ELSE "AbsoluteAmount"

NoValidData ==
    /\ env0.file.readable
    /\ ~ColumnMissing
    /\ ValidCells(TableRead.data[PriorityColumn]) = {}

Fatal == LoadFails \/ ColumnMissing \/ NoValidData

ReportBefore == IF env0.stale THEN StaleFile ELSE NoFile
ChartBefore == IF env0.stale THEN StaleChart ELSE NoChart

RECURSIVE SumUpTo(_, _)
\* f[1] + ... + f[k]
SumUpTo(f, k) == IF k = 0 THEN 0 ELSE f[k] + SumUpTo(f, k - 1)

RECURSIVE ProdUpTo(_, _)
\* f[1] * ... * f[k]
ProdUpTo(f, k) == IF k = 0 THEN 1 ELSE f[k] * ProdUpTo(f, k - 1)

TablesBuilt == pc \in {"open_report", "write_report", "close_report", "chart"}
               \/ (pc = "done" /\ returned = "end")


\* ------------------------------------------------------------------ C1

\* C1: for every non-zero finite numeric input, of any magnitude,
\* get_first_digit returns a digit in 1..9, never None.  (Stated for the
\* finite floats and the ints that convert to float, kind "num".)
C1_NonZeroFiniteYieldsDigit ==
    (pc = "idle" /\ result # Pending /\ arg.kind = "num" /\ ~IsZero(arg))
        => (result.tag = "digit" /\ result.d \in 1..9)

\* ------------------------------------------------------------------ C2

\* C2: get_first_digit(n) = get_first_digit(n * 10^k) for every non-zero
\* number n and every integer k, very small magnitudes included.
C2_ScaleInvariant ==
    (pc = "idle" /\ scaled_from # Pending) => result = scaled_from

\* ------------------------------------------------------------------ C3

\* C3: get_first_digit returns a digit of 1..9 or None for every input and
\* never lets an exception out; zero, a missing value and text yield None;
\* no run of main() is ended by an exception of a cell.
C3_NeverPropagates ==
    /\ (pc = "idle" /\ result # Pending) =>
          /\ result.tag \in {"digit", "None"}
          /\ result.tag = "digit" => result.d \in 1..9
          /\ (IsZero(arg) \/ arg.kind \in {"na", "text"}) => result = None
    /\ pc # "crashed"
    /\ (pc = "frequencies" \/ TablesBuilt \/ returned = "extract") =>
          Len(first_digits) = Cardinality(ValidCells(df.data[process_column]))

\* A run reached its end although its column held text and a missing
\* value beside numbers.
C3_Witness ==
    /\ pc = "done"
    /\ returned = "end"
    /\ \E i \in 1..Len(df.data[process_column]) : df.data[process_column][i] = Text
    /\ \E i \in 1..Len(df.data[process_column]) : df.data[process_column][i] = NA
    /\ total_count > 0


\* ------------------------------------------------------------------ C4

FallbackNotice == "Column 'Amount' not found. Using 'AbsoluteAmount' instead."
ColumnError == "Error: Neither 'Amount' nor 'AbsoluteAmount' column found in Excel file."

SelectionDone == pc \in {"extract", "frequencies"} \/ TablesBuilt
                 \/ (pc = "done" /\ returned \in {"select", "extract"})

\* C4: 'Amount' is analyzed whenever the table has it (also beside
\* 'AbsoluteAmount'), without the fallback notice; otherwise 'AbsoluteAmount'
\* is analyzed and the notice is printed; otherwise the run ends with the
\* error that lists the table's column names.
C4_ColumnPriority ==
    SelectionDone =>
        /\ HasColumn("Amount") =>
              /\ process_column = "Amount"
              /\ ~Printed(FallbackNotice)
              /\ ~Printed(ColumnError)
        /\ (~HasColumn("Amount") /\ HasColumn("AbsoluteAmount")) =>
              /\ process_column = "AbsoluteAmount"
              /\ Printed(FallbackNotice)
              /\ ~Printed(ColumnError)
        /\ (~HasColumn("Amount") /\ ~HasColumn("AbsoluteAmount")) =>
              /\ pc = "done"
              /\ returned = "select"
              /\ process_column = ""
              /\ ~Printed(FallbackNotice)
              /\ Printed(ColumnError)
              /\ \E i \in 1..Len(console) :
                    /\ console[i].msg = "Available columns"
                    /\ console[i].cols = { TableRead.columns[j] :
                                             j \in 1..Len(TableRead.columns) }

\* A run analyzed 'Amount' to its end in a table that also has
\* 'AbsoluteAmount', with different digits in the two columns.
C4_Witness ==
    /\ pc = "done"
    /\ returned = "end"
    /\ HasColumn("Amount")
    /\ HasColumn("AbsoluteAmount")
    /\ process_column = "Amount"
    /\ Cardinality(ValidCells(TableRead.data["Amount"]))
         # Cardinality(ValidCells(TableRead.data["AbsoluteAmount"]))

\* ------------------------------------------------------------------ C5

LoadErrorMsg == "Error loading Excel file"
NoDataMsg == "No valid numeric data found for analysis."

OutputUntouched == report_file = ReportBefore /\ chart_file = ChartBefore

\* C5: a run that meets a fatal condition (the file cannot be loaded, neither
\* column is present, no valid entry is left) prints the error, returns early
\* and writes neither file; the report or the chart is written only in a run
\* that loaded the data, selected a column and found a valid entry.
C5_FatalWritesNothing ==
    /\ pc # "idle" => (Fatal => OutputUntouched)
    /\ pc = "done" =>
          /\ LoadFails <=> returned = "load"
          /\ ColumnMissing <=> returned = "select"
          /\ NoValidData <=> returned = "extract"
          /\ returned = "load" => Printed(LoadErrorMsg)
          /\ returned = "select" => Printed(ColumnError)
          /\ returned = "extract" => Printed(NoDataMsg)
    /\ (pc # "idle" /\ ~OutputUntouched) =>
          /\ df.loaded
          /\ process_column \in {"Amount", "AbsoluteAmount"}
          /\ total_count >= 1
          /\ ~Fatal

\* A run ended at the no-data return, in a table whose column has rows, with
\* the files of an earlier run left as they were.
C5_Witness ==
    /\ pc = "done"
    /\ returned = "extract"
    /\ Len(df.data[process_column]) > 0
    /\ env0.stale
    /\ OutputUntouched
    /\ Printed(NoDataMsg)


\* ------------------------------------------------------------------ C6

ChosenColumn == df.data[process_column]

ReportLine(kind) ==
    CHOOSE l \in { report_file.lines[i] : i \in 1..Len(report_file.lines) } :
        l.kind = kind

ReportRows == RowLines(report_file.lines)

ReportWritten == pc \in {"close_report", "chart"} \/ (pc = "done" /\ returned = "end")

\* C6: the total is the number of values of the chosen column for which
\* get_first_digit returns a digit, the count of each digit d the number of
\* values whose digit is d, and the nine counts of the report's rows sum to
\* the total of its header.
C6_CountsMatchColumn ==
    /\ (pc = "frequencies" \/ TablesBuilt) =>
          total_count = Cardinality(ValidCells(ChosenColumn))
    /\ TablesBuilt =>
          /\ \A d \in 1..9 :
                digit_counts[d] = Cardinality(CellsWithDigit(ChosenColumn, d))
          /\ SumUpTo(digit_counts, 9) = total_count
    /\ ReportWritten =>
          /\ Len(ReportRows) = 9
          /\ \A d \in 1..9 :
                /\ ReportRows[d].d = d
                /\ ReportRows[d].count = Cardinality(CellsWithDigit(ChosenColumn, d))
          /\ SumUpTo([d \in 1..9 |-> ReportRows[d].count], 9)
               = ReportLine("total").count
          /\ ReportLine("total").count = Cardinality(ValidCells(ChosenColumn))

\* The report of the column [123, 45.6, 0, -0.0089, "bad", null] is written:
\* total 3, count 1 for the digits 1, 4 and 8, count 0 for the others.
C6_Witness ==
    /\ pc = "done"
    /\ returned = "end"
    /\ process_column = "Amount"
    /\ ChosenColumn = ExampleColumn
    /\ first_digits = <<1, 4, 8>>
    /\ ReportLine("total").count = 3
    /\ \A d \in 1..9 : ReportRows[d].count = IF d \in {1, 4, 8} THEN 1 ELSE 0

\* ------------------------------------------------------------------ C7

\* C7: a frequency table that is built has an entry for every digit 1..9
\* (count 0 for a digit that never occurred), each observed frequency is
\* count / total with total > 0 and lies in [0, 1], and the nine observed
\* frequencies (rationals over the common denominator total) sum to 1.
C7_FrequencyTable ==
    TablesBuilt =>
        /\ DOMAIN digit_counts = 1..9
        /\ DOMAIN actual_freq = 1..9
        /\ total_count > 0
        /\ \A d \in 1..9 :
              /\ digit_counts[d] >= 0
              /\ actual_freq[d] = <<digit_counts[d], total_count>>
              /\ 0 <= actual_freq[d][1]
              /\ actual_freq[d][1] <= actual_freq[d][2]
              /\ (d \notin { first_digits[i] : i \in 1..Len(first_digits) })
                    => digit_counts[d] = 0
        /\ SumUpTo([d \in 1..9 |-> actual_freq[d][1]], 9) = total_count

\* A table is built in which one digit occurred twice and others never.
C7_Witness ==
    /\ TablesBuilt
    /\ \E d \in 1..9 : actual_freq[d] = <<2, 2>>
    /\ \E d \in 1..9 : actual_freq[d] = <<0, 2>>

\* ------------------------------------------------------------------ C8

\* C8: for every digit d the expected frequency is log10(1 + 1/d), whatever
\* the dataset and the column, and the nine expected frequencies sum to 1:
\* the sum of the logarithms is the logarithm of the product of their
\* arguments, and that product is 10.
C8_BenfordFrequencies ==
    TablesBuilt =>
        /\ DOMAIN benford_freq = 1..9
        /\ \A d \in 1..9 :
              \* numerator / denominator = 1 + 1/d
              benford_freq[d].log10[1] * d = (d + 1) * benford_freq[d].log10[2]
        /\ \A d \in 1..9 : benford_freq[d].log10[2] > 0
        /\ ProdUpTo([d \in 1..9 |-> benford_freq[d].log10[1]], 9)
             = 10 * ProdUpTo([d \in 1..9 |-> benford_freq[d].log10[2]], 9)

\* The expected frequencies are computed in a run over 'AbsoluteAmount' that
\* found two valid entries.
C8_Witness ==
    /\ TablesBuilt
    /\ process_column = "AbsoluteAmount"
    /\ total_count = 2
    /\ benford_freq[9] = Log10(<<10, 9>>)


\* ------------------------------------------------------------------ C9

\* The place of a printed line in the order of main()'s statements.
MsgRank(msg) ==
    CASE msg = "Starting Benford's Law Analysis..." -> 1
      [] msg = "Created directory" -> 2
      [] msg \in {"Data loaded successfully.", LoadErrorMsg} -> 3
      [] msg \in {FallbackNotice, ColumnError} -> 4
      [] msg = "Available columns" -> 5
      [] msg = "Processing column" -> 6
      [] msg \in {"Total valid entries", NoDataMsg} -> 7
      [] msg = "Report saved to" -> 8
      [] msg = "Chart saved to" -> 9

ReportComplete ==
    /\ report_file.state = "closed"
    /\ Len(report_file.lines) = 14
    /\ Len(ReportRows) = 9

\* The order of a run, state by state: each step finds the previous one
\* done, the chart is saved only once the report is completely written and
\* closed, no exception stops the run, and a run without a fatal condition
\* that is at its end has written the report and the chart.
RunInOrder ==
    pc # "idle" =>
        /\ \A i \in 1..Len(console), j \in 1..Len(console) :
              i < j => MsgRank(console[i].msg) < MsgRank(console[j].msg)
        /\ df.loaded => (pc \notin {"start", "load"} /\ dir.exists)
        /\ process_column # "" => df.loaded
        /\ first_digits # <<>> => process_column # ""
        /\ digit_counts # <<>> =>
              (first_digits # <<>> /\ total_count = Len(first_digits))
        /\ report_file.state \in {"open", "closed"} =>
              (DOMAIN digit_counts = 1..9 /\ DOMAIN actual_freq = 1..9
               /\ DOMAIN benford_freq = 1..9)
        /\ report_file.state = "open" => chart_file = ChartBefore
        /\ Printed("Report saved to") => ReportComplete
        /\ chart_file.state = "saved" =>
              (ReportComplete /\ Printed("Report saved to") /\ pc = "done")
        /\ pc # "crashed"
        /\ (pc = "done" /\ ~Fatal) =>
              /\ returned = "end"
              /\ ReportComplete
              /\ chart_file.state = "saved"
              /\ Printed("Chart saved to")

\* C9: a run is one pass in the order load, select, extract/aggregate, write
\* report, save chart: no step starts before the previous one is done, the
\* chart is saved only after the report is completely written and closed,
\* and every run ends, one without a fatal condition with the report and
\* the chart written.
C9_SequentialPass ==
    /\ []RunInOrder
    /\ (pc = "start") ~> (pc = "done")
    /\ (pc = "start" /\ ~Fatal) ~>
          (pc = "done" /\ ReportComplete /\ chart_file.state = "saved")

\* A run without a fatal condition has ended, having overwritten the files
\* of an earlier run.
C9_Witness ==
    /\ pc = "done"
    /\ ~Fatal
    /\ env0.stale
    /\ ReportComplete
    /\ chart_file.state = "saved"
    /\ Len(console) >= 6

\* ------------------------------------------------------------------ C10

\* C10: the output directory exists once the first step is done, before the
\* input file is loaded, and so at the end of every run, the runs that end
\* at an early return included; "Created directory" is printed, and the
\* directory created, exactly when it did not exist before the run; an
\* existing directory is left as it was.
C10_OutputDirFirst ==
    /\ pc = "start" => (dir.exists <=> env0.dir_existed)
    /\ pc \notin {"idle", "start"} =>
          /\ dir.exists
          /\ dir.created <=> ~env0.dir_existed
          /\ Printed("Created directory") <=> ~env0.dir_existed
          /\ Printed("Created directory") => console[2].msg = "Created directory"
          /\ env0.dir_existed => dir = [exists |-> TRUE, created |-> FALSE]
    /\ pc = "load" => (~df.loaded /\ Len(console) <= 2)

\* A run that could not load its file has ended, the directory it created
\* being there.
C10_Witness ==
    /\ pc = "done"
    /\ returned = "load"
    /\ ~env0.dir_existed
    /\ dir = [exists |-> TRUE, created |-> TRUE]
    /\ Printed("Created directory")

====
